---- MODULE Spec2Model ----
(***************************************************************************)
(* aleph::representations::Vector<Index> (src/Vector.hh): the sparse       *)
(* column store of a boundary matrix over Z/2, driven first by a client    *)
(* that calls its methods in any order (Spec) and then by the left-to-     *)
(* right column reduction (SpecReduce).                                    *)
(***************************************************************************)
EXTENDS Naturals, Integers, Sequences, FiniteSets, TLC

\* ------------------------------------------------------------------ bounds
\* Largest column count passed to setNumColumns.
MaxCols == 2
\* Largest row index offered to setColumn by the store's clients.
MaxRow == 1
\* Longest input range [begin, end) offered to setColumn.
MaxLen == 2
\* Largest filtration (number of simplices, hence columns) that is reduced.
MaxSimplices == 4
\* Most boundary indices handed to setColumn for one simplex.
MaxFacets == 2
\* Vertices of the complexes whose filtrations are reduced.
MaxVertices == 3
\* Simplices in such a filtration: enough for a triangle with all its faces.
MaxFiltration == 7
\* Characters in a point cloud file.
MaxChars == 4
\* Coordinates of a point, and the largest value of one.
MaxDimension == 2
MaxCoordinate == 1
\* Strata of a stratified graph, vertices in one stratum, and the largest
\* weight a simplex carries.
MaxStrata == 3
MaxStratum == 2
MaxWeight == 1

VARIABLES
  _data,        \* std::vector< std::vector<Index> > _data
  _dimensions,  \* std::vector<Index> _dimensions
  _isDualized,  \* bool _isDualized
  ret,          \* outcome of the last call: what it returned, or that it threw
  pc,           \* who drives the matrix: "client", or the sweep "reduce",
                \* its repetition "again", and "done"
  j,            \* the column the sweep is working on
  pivotMap,     \* pivot row -> column, recorded as columns are finalized
  first,        \* columns and pivot map the first sweep ended with
  original,     \* the matrix as it was populated, before any sweep
  pairs,        \* the persistence pairs emitted after the latest sweep
  args          \* the arguments handed to a function outside the matrix

matrix == <<_data, _dimensions, _isDualized, ret>>
sweep == <<pc, j, pivotMap, first>>
extraction == <<original, pairs>>
vars == <<_data, _dimensions, _isDualized, ret, pc, j, pivotMap, first,
          original, pairs, args>>

\* Column arguments: every valid index and at least one past the end.
Columns == 0..MaxCols
Rows == 0..MaxRow
\* The ranges [begin, end) handed to setColumn: any order, repeats allowed.
Inputs == UNION {[1..n -> Rows] : n \in 0..MaxLen}

\* ------------------------------------------------------- <algorithm> pieces
RECURSIVE Insert(_, _)
Insert(x, s) ==
  IF s = <<>> THEN <<x>>
  ELSE IF x <= Head(s) THEN <<x>> \o s
  ELSE <<Head(s)>> \o Insert(x, Tail(s))

\* The range as assigned, std::sort left out.
Unsorted(s) == s

RECURSIVE Sort(_)
\* std::sort with operator<: the ascending permutation of s, repeats kept.
Sort(s) == IF s = <<>> THEN <<>> ELSE Insert(Head(s), Sort(Tail(s)))

RECURSIVE SetUnion(_, _)
\* std::set_union in place of std::set_symmetric_difference: equal heads are
\* copied once instead of dropped.
SetUnion(a, b) ==
  IF a = <<>> THEN b
  ELSE IF b = <<>> THEN a
  ELSE IF Head(a) < Head(b) THEN <<Head(a)>> \o SetUnion(Tail(a), b)
  ELSE IF Head(b) < Head(a) THEN <<Head(b)>> \o SetUnion(a, Tail(b))
  ELSE <<Head(a)>> \o SetUnion(Tail(a), Tail(b))

RECURSIVE SetSymmetricDifference(_, _)
\* std::set_symmetric_difference: one merge pass over two ascending ranges;
\* equal heads are dropped pairwise, everything else is copied.
SetSymmetricDifference(a, b) ==
  IF a = <<>> THEN b
  ELSE IF b = <<>> THEN a
  ELSE IF Head(a) < Head(b) THEN <<Head(a)>> \o SetSymmetricDifference(Tail(a), b)
  ELSE IF Head(b) < Head(a) THEN <<Head(b)>> \o SetSymmetricDifference(a, Tail(b))
  ELSE SetSymmetricDifference(Tail(a), Tail(b))

\* clear() followed by resize(n): nothing is kept.
ResizeCleared(v, n, fresh) == [i \in 1..n |-> fresh]

\* std::vector::resize(n): keeps the first min(size, n) elements and appends
\* value-initialised ones.
Resize(v, n, fresh) == [i \in 1..n |-> IF i <= Len(v) THEN v[i] ELSE fresh]

\* std::vector::at(i) throws std::out_of_range unless i < size().
InRange(v, i) == i < Len(v)

RECURSIVE MaxElement(_)
\* std::max_element over a non-empty range.
MaxElement(v) ==
  IF Len(v) = 1 THEN v[1]
  ELSE LET m == MaxElement(Tail(v)) IN IF Head(v) < m THEN m ELSE Head(v)

\* ------------------------------------------------------------ call outcomes
\* The object a method is called on.
self == [data |-> _data, dimensions |-> _dimensions, isDualized |-> _isDualized]

\* A call that returns: what the caller receives and the object it leaves.
Return(op, value, this) == [op |-> op, thrown |-> FALSE, value |-> value, this |-> this]

\* A call left by std::out_of_range: the object is as the throw found it.
Throw(op, this) == [op |-> op, thrown |-> TRUE, value |-> <<>>, this |-> this]

Void == <<>>

\* ----------------------------------------------------------------- methods
setNumColumns(this, numColumns) ==
  Return("setNumColumns", Void,
         [this EXCEPT !.data = Resize(this.data, numColumns, <<>>),
                      !.dimensions = Resize(this.dimensions, numColumns, 0)])

getNumColumns(this) == Return("getNumColumns", Len(this.data), this)

\* front() in place of back().
getMaximumIndexFront(this, column) ==
  IF ~InRange(this.data, column) THEN Throw("getMaximumIndex", this)
  ELSE IF this.data[column + 1] = <<>>
    THEN Return("getMaximumIndex", [first |-> 0, second |-> FALSE], this)
    ELSE Return("getMaximumIndex",
                [first |-> this.data[column + 1][1], second |-> TRUE], this)

getMaximumIndex(this, column) ==
  IF ~InRange(this.data, column) THEN Throw("getMaximumIndex", this)
  ELSE IF this.data[column + 1] = <<>>
    THEN Return("getMaximumIndex", [first |-> 0, second |-> FALSE], this)
    ELSE Return("getMaximumIndex",
                [first |-> this.data[column + 1][Len(this.data[column + 1])],
                 second |-> TRUE],
                this)

\* The result swapped into the source column instead of the target.
addColumnsIntoSource(this, source, target) ==
  IF ~InRange(this.data, source) \/ ~InRange(this.data, target)
    THEN Throw("addColumns", this)
    ELSE Return("addColumns", Void,
                [this EXCEPT !.data[source + 1] =
                   SetSymmetricDifference(this.data[source + 1], this.data[target + 1])])

\* at() on the source alone; a target past the end is skipped silently.
addColumnsSourceChecked(this, source, target) ==
  IF ~InRange(this.data, source) THEN Throw("addColumns", this)
  ELSE IF ~InRange(this.data, target) THEN Return("addColumns", Void, this)
  ELSE Return("addColumns", Void,
              [this EXCEPT !.data[target + 1] =
                 SetSymmetricDifference(this.data[source + 1], this.data[target + 1])])

addColumns(this, source, target) ==
  IF ~InRange(this.data, source) \/ ~InRange(this.data, target)
    THEN Throw("addColumns", this)
    ELSE Return("addColumns", Void,
                [this EXCEPT !.data[target + 1] =
                   SetSymmetricDifference(this.data[source + 1], this.data[target + 1])])

\* The count of indices, the "- 1" left out.
CountedDimension(input) == Len(input)

\* The dimension setColumn derives from the range [begin, end).
DerivedDimension(input) == IF input = <<>> THEN 0 ELSE Len(input) - 1

\* setColumn with every row index checked against the column count.
setColumnRowChecked(this, column, input) ==
  IF ~InRange(this.data, column) THEN Throw("setColumn", this)
  ELSE IF \E i \in DOMAIN input : ~InRange(this.data, input[i]) THEN Throw("setColumn", this)
  ELSE Return("setColumn", Void,
              [this EXCEPT !.data[column + 1] = Sort(input),
                           !.dimensions[column + 1] = DerivedDimension(input)])

setColumn(this, column, input) ==
  IF ~InRange(this.data, column) THEN Throw("setColumn", this)
  ELSE LET sorted == [this EXCEPT !.data[column + 1] = Sort(input)]
       IN IF ~InRange(this.dimensions, column)
            \* _dimensions.at throws after the column was assigned and sorted
            THEN Throw("setColumn", sorted)
            ELSE Return("setColumn", Void,
                        [sorted EXCEPT !.dimensions[column + 1] = DerivedDimension(input)])

getColumn(this, column) ==
  IF ~InRange(this.data, column) THEN Throw("getColumn", this)
  ELSE Return("getColumn", this.data[column + 1], this)

\* clear() on every column instead of the addressed one.
clearColumnAll(this, column) ==
  IF ~InRange(this.data, column) THEN Throw("clearColumn", this)
  ELSE Return("clearColumn", Void,
              [this EXCEPT !.data = [i \in 1..Len(this.data) |-> <<>>]])

clearColumn(this, column) ==
  IF ~InRange(this.data, column) THEN Throw("clearColumn", this)
  ELSE Return("clearColumn", Void, [this EXCEPT !.data[column + 1] = <<>>])

getDimensionOf(this, column) ==
  IF ~InRange(this.dimensions, column) THEN Throw("getDimension(column)", this)
  ELSE Return("getDimension(column)", this.dimensions[column + 1], this)

getDimension(this) ==
  Return("getDimension()",
         IF this.dimensions = <<>> THEN 0 ELSE MaxElement(this.dimensions),
         this)

\* A setDualized that leaves the flag alone (what setDualized must not be).
setDualizedIgnored(this, value) == Return("setDualized", Void, this)

setDualized(this, value) ==
  Return("setDualized", Void, [this EXCEPT !.isDualized = value])

isDualized(this) == Return("isDualized", this.isDualized, this)

\* ----------------------------------------------------------- specification
\* One call on the matrix: its members become what the method left, and the
\* caller sees what it returned or that it threw.
Call(outcome) ==
  /\ _data' = outcome.this.data
  /\ _dimensions' = outcome.this.dimensions
  /\ _isDualized' = outcome.this.isDualized
  /\ ret' = [op |-> outcome.op, thrown |-> outcome.thrown, value |-> outcome.value]

\* A default-constructed Vector.
Vector == [data |-> <<>>, dimensions |-> <<>>, isDualized |-> FALSE]

NoPivots == [p \in {} |-> 0]

\* A new matrix in the hands of a client that calls its methods in any order.
Init ==
  /\ _data = Vector.data
  /\ _dimensions = Vector.dimensions
  /\ _isDualized = Vector.isDualized
  /\ ret = [op |-> "Vector", thrown |-> FALSE, value |-> Void]
  /\ pc = "client"
  /\ j = 0
  /\ pivotMap = NoPivots
  /\ first = [data |-> <<>>, pivotMap |-> NoPivots]
  /\ original = Vector
  /\ pairs = <<>>
  /\ args = <<>>

\* A call by the client; the sweep is not running.
Client(outcome) ==
  /\ pc = "client"
  /\ Call(outcome)
  /\ UNCHANGED <<sweep, extraction, args>>

Next ==
  \/ \E numColumns \in 0..MaxCols : Client(setNumColumns(self, numColumns))
  \/ Client(getNumColumns(self))
  \/ \E column \in Columns : Client(getMaximumIndex(self, column))
  \/ \E source \in Columns, target \in Columns : Client(addColumns(self, source, target))
  \/ \E column \in Columns, input \in Inputs : Client(setColumn(self, column, input))
  \/ \E column \in Columns : Client(getColumn(self, column))
  \/ \E column \in Columns : Client(clearColumn(self, column))
  \/ \E column \in Columns : Client(getDimensionOf(self, column))
  \/ Client(getDimension(self))
  \/ \E value \in BOOLEAN : Client(setDualized(self, value))
  \/ Client(isDualized(self))

Spec == Init /\ [][Next]_vars

\* ---------------------------------------------------------------- reduction
\* The boundary indices a filtration hands over for simplex `column`: facets
\* come earlier in the filtration, in any order, repeats not excluded.
Facets(column) == UNION {[1..n -> 0..(column - 1)] : n \in 0..MaxFacets}

RECURSIVE Populate(_, _, _)
\* setColumn for the columns next..N-1, in filtration order.
Populate(this, next, boundary) ==
  IF next >= Len(this.data) THEN this
  ELSE Populate(setColumn(this, next, boundary[next + 1]).this, next + 1, boundary)

RECURSIVE Boundaries(_)
\* The boundaries of a filtration of n simplices, one range per simplex.
Boundaries(n) ==
  IF n = 0 THEN {<<>>}
  ELSE {Append(boundary, facets) :
          boundary \in Boundaries(n - 1), facets \in Facets(n - 1)}

\* The matrices of N columns a client can build: sized once, then populated
\* column by column from a boundary.
Populated(N) ==
  {Populate(setNumColumns(Vector, N).this, 0, boundary) : boundary \in Boundaries(N)}

\* A populated matrix about to be reduced.
InitReduce ==
  \E N \in 0..MaxSimplices :
    \E built \in Populated(N) :
      /\ _data = built.data
      /\ _dimensions = built.dimensions
      /\ _isDualized = built.isDualized
      /\ ret = [op |-> "setColumn", thrown |-> FALSE, value |-> Void]
      /\ pc = "reduce"
      /\ j = 0
      /\ pivotMap = NoPivots
      /\ first = [data |-> <<>>, pivotMap |-> NoPivots]
      /\ original = built
      /\ pairs = <<>>
      /\ args = <<>>

\* Step (b): the earlier non-empty columns whose pivot is that of column j.
SamePivot(this, column) ==
  {k \in 0..(column - 1) :
     /\ getMaximumIndex(this, k).value.second
     /\ getMaximumIndex(this, k).value.first = getMaximumIndex(this, column).value.first}

Sweeping == pc \in {"reduce", "again", "dual"} /\ j < Len(_data)

\* Steps (a)-(c): column j has a pivot that an earlier column holds too;
\* add that column to it and look at column j again.
Eliminate ==
  /\ Sweeping
  /\ getMaximumIndex(self, j).value.second
  /\ \E k \in SamePivot(self, j) : Call(addColumns(self, k, j))
  /\ UNCHANGED <<sweep, extraction, args>>

\* Step (d): column j is empty or holds a pivot of its own; record it and
\* move on to the next column.
Finalize ==
  /\ Sweeping
  /\ LET pivot == getMaximumIndex(self, j)
     IN /\ pivot.value.second => SamePivot(self, j) = {}
        /\ Call(pivot)
        /\ pivotMap' = IF pivot.value.second
                         THEN [p \in DOMAIN pivotMap \cup {pivot.value.first} |->
                                 IF p = pivot.value.first THEN j ELSE pivotMap[p]]
                         ELSE pivotMap
  /\ j' = j + 1
  /\ UNCHANGED <<pc, first, extraction, args>>

\* The sweep has passed the last column: keep what it produced and run it
\* once more over the reduced matrix.
Repeat ==
  /\ pc = "reduce" /\ j = Len(_data)
  /\ first' = [data |-> _data, pivotMap |-> pivotMap]
  /\ pc' = "again"
  /\ j' = 0
  /\ pivotMap' = NoPivots
  /\ UNCHANGED <<matrix, extraction, args>>

Finish ==
  /\ pc = "again" /\ j = Len(_data)
  /\ pc' = "done"
  /\ UNCHANGED <<matrix, j, pivotMap, first, extraction, args>>

NextReduce == Eliminate \/ Finalize \/ Repeat \/ Finish

SpecReduce == InitReduce /\ [][NextReduce]_vars

\* ------------------------------------------------ pairing (spec 4.2, 2-3)
\* The simplices over the vertices 0..MaxVertices-1, each the set of its
\* vertices.
Simplices == (SUBSET (0..(MaxVertices - 1))) \ {{}}

\* The facets of a simplex: drop one vertex; a vertex has none.
FacetsOf(simplex) ==
  IF Cardinality(simplex) = 1 THEN {} ELSE {simplex \ {v} : v \in simplex}

RECURSIVE Filtrations(_)
\* The filtrations of n simplices: no simplex twice, every facet of a simplex
\* earlier than the simplex. Vertices are numbered as they enter.
Filtrations(n) ==
  IF n = 0 THEN {<<>>}
  ELSE {Append(x[1], x[2]) :
          x \in {y \in Filtrations(n - 1) \X Simplices :
                   /\ \A i \in DOMAIN y[1] : y[1][i] # y[2]
                   /\ \A facet \in FacetsOf(y[2]) :
                        \E i \in DOMAIN y[1] : y[1][i] = facet
                   /\ \A v \in y[2] :
                        (y[2] = {v} /\ v > 0) => \E i \in DOMAIN y[1] : y[1][i] = {v - 1}}}

\* The filtration index of a simplex.
IndexOf(filtration, simplex) ==
  (CHOOSE i \in DOMAIN filtration : filtration[i] = simplex) - 1

RECURSIVE Vertices(_)
\* The vertices of a simplex in increasing order.
Vertices(simplex) ==
  IF simplex = {} THEN <<>>
  ELSE LET v == CHOOSE u \in simplex : \A w \in simplex : u <= w
       IN <<v>> \o Vertices(simplex \ {v})

\* The boundary a filtration hands over: for each simplex the filtration
\* indices of its facets, the facet without the first vertex first.
BoundaryOf(filtration) ==
  [i \in DOMAIN filtration |->
     LET simplex == filtration[i]
         vertices == Vertices(simplex)
     IN IF Len(vertices) = 1 THEN <<>>
        ELSE [k \in DOMAIN vertices |->
                IndexOf(filtration, simplex \ {vertices[k]})]]

\* The boundary matrix of a filtration: sized once, then populated column by
\* column in filtration order.
BoundaryMatrix(filtration) ==
  Populate(setNumColumns(Vector, Len(filtration)).this, 0, BoundaryOf(filtration))

\* A matrix M about to be reduced with dualization off.
Handed(M, arguments) ==
  LET plain == setDualized(M, FALSE).this
  IN /\ _data = plain.data
     /\ _dimensions = plain.dimensions
     /\ _isDualized = plain.isDualized
     /\ ret = [op |-> "setDualized", thrown |-> FALSE, value |-> Void]
     /\ pc = "reduce"
     /\ j = 0
     /\ pivotMap = NoPivots
     /\ first = [data |-> <<>>, pivotMap |-> NoPivots, pairs |-> <<>>]
     /\ original = M
     /\ pairs = <<>>
     /\ args = arguments

\* The matrices handed to the engine: the boundary matrix of a simplicial
\* filtration, or whatever else a caller may populate below the diagonal.
InitPairing ==
  \/ \E N \in 0..MaxFiltration : \E filtration \in Filtrations(N) :
       Handed(BoundaryMatrix(filtration), [filtration |-> filtration])
  \/ \E N \in 0..MaxSimplices : \E M \in Populated(N) :
       Handed(M, <<>>)

\* The matrix being reduced was built from a simplicial filtration.
Simplicial == args # <<>>

RECURSIVE EmitPairs(_, _)
\* Step 2: a pair for every non-empty column from `column` on, in column
\* order: (birth = pivot, death = column, dimension of the pivot's simplex),
\* birth and death swapped when the matrix is dualized.
EmitPairs(this, column) ==
  IF column >= Len(this.data) THEN <<>>
  ELSE LET pivot == getMaximumIndex(this, column).value
           dimension == getDimensionOf(this, pivot.first).value
           pair == IF isDualized(this).value
                     THEN [birth |-> column, death |-> pivot.first, dimension |-> dimension]
                     ELSE [birth |-> pivot.first, death |-> column, dimension |-> dimension]
       IN (IF pivot.second THEN <<pair>> ELSE <<>>) \o EmitPairs(this, column + 1)

\* Step 3: the empty columns no column points to as its pivot.
Unpaired(this) ==
  {c \in 0..(Len(this.data) - 1) :
     /\ ~getMaximumIndex(this, c).value.second
     /\ \A k \in 0..(Len(this.data) - 1) :
          LET pivot == getMaximumIndex(this, k).value
          IN ~(pivot.second /\ pivot.first = c)}

\* The sweep has passed the last column: emit the pairs.
Extract ==
  /\ pc \in {"reduce", "dual"} /\ j = Len(_data)
  /\ pairs' = EmitPairs(self, 0)
  /\ pc' = IF pc = "reduce" THEN "extracted" ELSE "done"
  /\ UNCHANGED <<matrix, j, pivotMap, first, original, args>>

\* Keep what the run with dualization off produced, take the same matrix M
\* again and reduce it with dualization on.
Dualize ==
  /\ pc = "extracted"
  /\ first' = [data |-> _data, pivotMap |-> pivotMap, pairs |-> pairs]
  /\ Call(setDualized(original, TRUE))
  /\ pc' = "dual"
  /\ j' = 0
  /\ pivotMap' = NoPivots
  /\ pairs' = <<>>
  /\ UNCHANGED <<original, args>>

NextPairing == Eliminate \/ Finalize \/ Extract \/ Dualize

SpecPairing == InitPairing /\ [][NextPairing]_vars

\* ------------------------------------------------------ vocabulary of claims
Elems(s) == {s[i] : i \in DOMAIN s}
Count(s, r) == Cardinality({i \in DOMAIN s : s[i] = r})
Ascending(s) == \A i \in 1..(Len(s) - 1) : s[i] <= s[i + 1]
StrictlyAscending(s) == \A i \in 1..(Len(s) - 1) : s[i] < s[i + 1]
SymDiff(A, B) == (A \ B) \cup (B \ A)
Distance(m, n) == IF m < n THEN n - m ELSE m - n
Largest(S) == CHOOSE m \in S : \A x \in S : x <= m
ValidColumns == {c \in Columns : c < Len(_data)}
InvalidColumns == Columns \ ValidColumns
SameMembers(o) == o.this = self

\* ------------------------------------------------------------------- C1
\* C1 (as stated): for any two columns the store can hold, addColumns(source,
\* target) leaves in the target exactly the set of row indices present in
\* exactly one of the two columns, strictly ascending and without repeats;
\* source = target leaves the target empty.
C1_AddColumnsExactlyOne ==
  \A source \in ValidColumns, target \in ValidColumns :
    LET o == addColumns(self, source, target)
        result == o.this.data[target + 1]
    IN /\ ~o.thrown
       /\ StrictlyAscending(result)
       /\ Elems(result) = SymDiff(Elems(_data[source + 1]), Elems(_data[target + 1]))
       /\ (source = target => result = <<>>)

\* C1 (amended): addColumns(source, target) leaves the target ascending and
\* holding every row index as many times as the numbers of its occurrences in
\* the two columns differ; when neither column repeats an index this is
\* exactly the set of indices present in exactly one of them, without
\* repeats; source = target leaves the target empty.
C1_AddColumnsCountDifference ==
  \A source \in ValidColumns, target \in ValidColumns :
    LET o == addColumns(self, source, target)
        A == _data[source + 1]
        B == _data[target + 1]
        result == o.this.data[target + 1]
    IN /\ ~o.thrown
       /\ Ascending(result)
       /\ \A r \in Elems(A) \cup Elems(B) \cup Elems(result) :
            Count(result, r) = Distance(Count(A, r), Count(B, r))
       /\ (StrictlyAscending(A) /\ StrictlyAscending(B)) =>
            /\ StrictlyAscending(result)
            /\ Elems(result) = SymDiff(Elems(A), Elems(B))
       /\ (source = target => result = <<>>)

\* addColumns has just merged a column into one it overlapped: the target
\* holds what only one of the two held.
C1_Witness ==
  /\ ret.op = "addColumns" /\ ~ret.thrown
  /\ \E source \in ValidColumns, target \in ValidColumns :
       /\ source # target
       /\ _data[source + 1] = <<0, 1>>
       /\ _data[target + 1] = <<1>>

\* ------------------------------------------------------------------- C2
\* C2 (as stated): after setColumn(c, input) with any input the column is
\* strictly ascending, has no repeats and holds exactly the distinct values of
\* the input; so every column of every reachable store is strictly ascending.
C2_SetColumnSortsAndDeduplicates ==
  /\ \A column \in ValidColumns, input \in Inputs :
       LET o == setColumn(self, column, input)
           stored == getColumn(o.this, column).value
       IN /\ ~o.thrown
          /\ StrictlyAscending(stored)
          /\ Elems(stored) = Elems(input)
  /\ \A column \in ValidColumns : StrictlyAscending(getColumn(self, column).value)

\* C2 (amended): after setColumn(c, input) the column holds the entries of the
\* input in ascending order, each as often as the input holds it; it is
\* strictly ascending and free of repeats exactly when the input repeats no
\* index. Every column of every reachable store is ascending, and getColumn
\* returns it as stored.
C2_SetColumnSortsKeepingRepeats ==
  /\ \A column \in ValidColumns, input \in Inputs :
       LET o == setColumn(self, column, input)
           stored == getColumn(o.this, column).value
       IN /\ ~o.thrown
          /\ Ascending(stored)
          /\ Len(stored) = Len(input)
          /\ \A r \in Rows : Count(stored, r) = Count(input, r)
          /\ StrictlyAscending(stored) <=> (Cardinality(Elems(input)) = Len(input))
  /\ \A column \in ValidColumns :
       /\ Ascending(getColumn(self, column).value)
       /\ getColumn(self, column).value = _data[column + 1]

\* setColumn has just stored a descending input: the column is ascending.
C2_Witness ==
  /\ ret.op = "setColumn" /\ ~ret.thrown
  /\ \E column \in ValidColumns : _data[column + 1] = <<0, 1>>

\* ------------------------------------------------------------------- C3
\* C3: in every reachable store and for every valid column c,
\* getMaximumIndex(c) returns present = false exactly when the column is
\* empty, and otherwise (m, true) with m the largest row index stored in it.
C3_MaximumIndexIsPivot ==
  \A column \in ValidColumns :
    LET o == getMaximumIndex(self, column)
    IN /\ ~o.thrown
       /\ (o.value.second = FALSE) <=> (_data[column + 1] = <<>>)
       /\ _data[column + 1] # <<>> =>
            /\ o.value.second = TRUE
            /\ o.value.first = Largest(Elems(_data[column + 1]))

\* getMaximumIndex has just reported the pivot of a column with two entries.
C3_Witness ==
  /\ ret.op = "getMaximumIndex" /\ ~ret.thrown
  /\ ret.value = [first |-> 1, second |-> TRUE]
  /\ \E column \in ValidColumns : Len(_data[column + 1]) >= 2
\* ------------------------------------------------------------------- C4
\* C4 (as stated): after any call setNumColumns(n), repeated calls on a
\* populated matrix included, the matrix has n columns, every column is empty
\* and every per-column dimension is 0.
C4_SetNumColumnsEmptiesAll ==
  \A numColumns \in 0..MaxCols :
    LET o == setNumColumns(self, numColumns)
    IN /\ ~o.thrown
       /\ Len(o.this.data) = numColumns /\ Len(o.this.dimensions) = numColumns
       /\ \A i \in 1..numColumns : o.this.data[i] = <<>> /\ o.this.dimensions[i] = 0
       /\ getDimension(o.this).value = 0

\* C4 (amended): after any call setNumColumns(n) the matrix has n columns;
\* the columns that did not exist before the call are empty with dimension 0,
\* and the columns below both the old and the new count keep their contents
\* and their dimension. A first call on a new matrix therefore leaves every
\* column empty and getDimension() = 0.
C4_SetNumColumnsResizes ==
  \A numColumns \in 0..MaxCols :
    LET o == setNumColumns(self, numColumns)
    IN /\ ~o.thrown
       /\ getNumColumns(o.this).value = numColumns
       /\ Len(o.this.data) = numColumns /\ Len(o.this.dimensions) = numColumns
       /\ o.this.isDualized = _isDualized
       /\ \A i \in 1..numColumns :
            IF i <= Len(_data)
              THEN o.this.data[i] = _data[i] /\ o.this.dimensions[i] = _dimensions[i]
              ELSE o.this.data[i] = <<>> /\ o.this.dimensions[i] = 0
       /\ Len(_data) = 0 =>
            /\ \A i \in 1..numColumns : o.this.data[i] = <<>> /\ o.this.dimensions[i] = 0
            /\ getDimension(o.this).value = 0

\* setNumColumns has just been called on a matrix that setColumn had
\* populated, and column 0 still holds two entries under dimension 1.
C4_Witness ==
  /\ ret.op = "setNumColumns" /\ ~ret.thrown
  /\ Len(_data) = MaxCols
  /\ Len(_data[1]) = 2 /\ _dimensions[1] = 1
  /\ _data[MaxCols] = <<>> /\ _dimensions[MaxCols] = 0

\* ------------------------------------------------------------------- C5
\* C5: setColumn(c, input) sets getDimension(c) to 0 for an empty input and to
\* k - 1 for an input of k entries; getDimension() is the largest per-column
\* dimension (0 without columns); addColumns and clearColumn change no
\* per-column dimension.
C5_DimensionDerivation ==
  /\ \A column \in ValidColumns, input \in Inputs :
       LET o == setColumn(self, column, input)
       IN /\ ~getDimensionOf(o.this, column).thrown
          /\ getDimensionOf(o.this, column).value =
               (IF Len(input) = 0 THEN 0 ELSE Len(input) - 1)
  /\ \A column \in ValidColumns :
       getDimensionOf(self, column).value = _dimensions[column + 1]
  /\ getDimension(self).value =
       (IF Len(_dimensions) = 0 THEN 0 ELSE Largest(Elems(_dimensions)))
  /\ \A source \in Columns, target \in Columns :
       addColumns(self, source, target).this.dimensions = _dimensions
  /\ \A column \in Columns : clearColumn(self, column).this.dimensions = _dimensions

\* getDimension() has just returned 1 on a matrix whose columns carry the
\* dimensions 1 and 0, the former over a column emptied since.
C5_Witness ==
  /\ ret.op = "getDimension()" /\ ret.value = 1
  /\ \E c \in ValidColumns, d \in ValidColumns :
       /\ _dimensions[c + 1] = 1 /\ _data[c + 1] = <<>>
       /\ _dimensions[d + 1] = 0

\* ------------------------------------------------------------------- C6
\* C6: every per-column operation called with a column index >=
\* getNumColumns() fails with a bounds error and leaves every column, every
\* dimension and the dualization flag as they were; for addColumns whether
\* the source, the target or both are out of range.
C6_OutOfRangeColumnThrows ==
  /\ getNumColumns(self).value = Len(_data)
  /\ \A column \in InvalidColumns :
       /\ getMaximumIndex(self, column).thrown /\ SameMembers(getMaximumIndex(self, column))
       /\ getColumn(self, column).thrown /\ SameMembers(getColumn(self, column))
       /\ clearColumn(self, column).thrown /\ SameMembers(clearColumn(self, column))
       /\ getDimensionOf(self, column).thrown /\ SameMembers(getDimensionOf(self, column))
       /\ \A input \in Inputs :
            setColumn(self, column, input).thrown /\ SameMembers(setColumn(self, column, input))
       /\ \A other \in Columns :
            /\ addColumns(self, column, other).thrown /\ SameMembers(addColumns(self, column, other))
            /\ addColumns(self, other, column).thrown /\ SameMembers(addColumns(self, other, column))

\* A call has just thrown on a populated matrix.
C6_Witness ==
  /\ ret.op = "addColumns" /\ ret.thrown
  /\ Len(_data) = 1 /\ _data[1] # <<>> /\ _isDualized

\* ------------------------------------------------------------------- C7
\* C7 (as stated): a row index >= getNumColumns() among the indices passed to
\* setColumn is signalled as an out-of-range error at once and is not stored.
C7_RowBeyondBoundsThrows ==
  \A column \in ValidColumns, input \in Inputs :
    (\E r \in Elems(input) : r >= getNumColumns(self).value) =>
      /\ setColumn(self, column, input).thrown
      /\ SameMembers(setColumn(self, column, input))

\* C7 (amended): setColumn checks the column index alone. A row index >=
\* getNumColumns() among the indices passed for a valid column raises no
\* error and is stored in the column like any other; the call throws exactly
\* when the column index is out of range.
C7_RowBeyondBoundsStored ==
  \A column \in Columns, input \in Inputs :
    LET o == setColumn(self, column, input)
    IN /\ o.thrown <=> column >= getNumColumns(self).value
       /\ ~o.thrown => Elems(o.this.data[column + 1]) = Elems(input)

\* setColumn has just returned and a column holds a row index that is no
\* column of the matrix.
C7_Witness ==
  /\ ret.op = "setColumn" /\ ~ret.thrown
  /\ \E column \in ValidColumns :
       \E r \in Elems(_data[column + 1]) : r >= getNumColumns(self).value

\* ------------------------------------------------------------------- C8
OthersKept(o, changed) ==
  /\ Len(o.this.data) = Len(_data)
  /\ Len(o.this.dimensions) = Len(_dimensions)
  /\ \A c \in ValidColumns \ changed : o.this.data[c + 1] = _data[c + 1]

\* C8: every mutator changes only what it addresses. setColumn(c, ..) and
\* clearColumn(c) keep contents and dimension of every other column;
\* addColumns(s, t) with s # t keeps column s, every column other than t and
\* every dimension; setDualized changes the flag alone, which isDualized
\* returns (false on a new matrix); none of them changes getNumColumns().
C8_MutatorsActOnAddressedColumns ==
  /\ \A column \in Columns, input \in Inputs :
       LET o == setColumn(self, column, input)
       IN /\ OthersKept(o, {column})
          /\ \A c \in ValidColumns \ {column} : o.this.dimensions[c + 1] = _dimensions[c + 1]
          /\ o.this.isDualized = _isDualized
  /\ \A column \in Columns :
       LET o == clearColumn(self, column)
       IN /\ OthersKept(o, {column})
          /\ o.this.dimensions = _dimensions
          /\ o.this.isDualized = _isDualized
  /\ \A source \in Columns, target \in Columns :
       LET o == addColumns(self, source, target)
       IN source # target =>
            /\ OthersKept(o, {target})
            /\ o.this.dimensions = _dimensions
            /\ o.this.isDualized = _isDualized
  /\ \A value \in BOOLEAN :
       LET o == setDualized(self, value)
       IN /\ o.this.data = _data /\ o.this.dimensions = _dimensions
          /\ isDualized(o.this).value = value
          /\ \A other \in {setNumColumns(o.this, Len(_data)), clearColumn(o.this, 0),
                            addColumns(o.this, 0, 0), setColumn(o.this, 0, <<>>)} :
               isDualized(other.this).value = value
  /\ SameMembers(isDualized(self))
  /\ (ret.op = "Vector" => isDualized(self).value = FALSE)

\* addColumns has just rewritten one of two populated columns of a dualized
\* matrix, next to a source it left alone.
C8_Witness ==
  /\ ret.op = "addColumns" /\ ~ret.thrown
  /\ _isDualized
  /\ Len(_data) = 2
  /\ _data[1] = <<0, 1>> /\ _data[2] = <<0>>
  /\ _dimensions = <<1, 1>>
\* ------------------------------------------------------------------- C9
\* Every stored row index is smaller than the index of its column.
Triangular ==
  \A c \in 0..(Len(_data) - 1) : \A r \in Elems(_data[c + 1]) : r < c

\* No two distinct non-empty columns among 0..n-1 share their largest row.
DistinctPivots(n) ==
  \A a \in 0..(n - 1), b \in 0..(n - 1) :
    (a # b /\ _data[a + 1] # <<>> /\ _data[b + 1] # <<>>) =>
      Largest(Elems(_data[a + 1])) # Largest(Elems(_data[b + 1]))

\* C9: on a matrix whose stored row indices all lie below their column index,
\* once the sweep has completed any two distinct non-empty columns have
\* different largest row indices; and while it runs the same holds among the
\* columns 0..j-1 it has finalized.
C9_PivotsUniqueAfterSweep ==
  /\ Triangular
  /\ pc \in {"reduce", "again"} => DistinctPivots(j)
  /\ pc \in {"again", "done"} => DistinctPivots(Len(_data))

\* The first sweep has completed on four columns; the last one, assigned two
\* facets, was brought down to one entry by an elimination.
C9_Witness ==
  /\ pc = "again" /\ j = 0
  /\ Len(_data) = 4
  /\ _dimensions[4] = 1 /\ Len(_data[4]) = 1
  /\ _data[3] # <<>>

\* ------------------------------------------------------------------ C10
\* C10: a second sweep over a matrix the sweep has reduced finds no column to
\* add, leaves every column as the first sweep left it, and ends with the
\* pivot map the first sweep built.
C10_SecondSweepChangesNothing ==
  /\ pc \in {"again", "done"} => _data = first.data
  /\ (pc = "again" /\ j < Len(_data)) =>
       (getMaximumIndex(self, j).value.second => SamePivot(self, j) = {})
  /\ pc = "again" =>
       \A p \in DOMAIN pivotMap : p \in DOMAIN first.pivotMap /\ pivotMap[p] = first.pivotMap[p]
  /\ pc = "done" => pivotMap = first.pivotMap

\* Both sweeps have completed on a matrix in which the first one eliminated
\* a shared pivot and recorded two pivots.
C10_Witness ==
  /\ pc = "done"
  /\ Len(_data) = 4
  /\ _dimensions[4] = 1 /\ Len(_data[4]) = 1
  /\ Cardinality(DOMAIN first.pivotMap) >= 2

\* ------------------------------------------------------------------ C11
\* C11: for the boundary matrix of a simplicial filtration, reduced with
\* dualization off, every non-empty reduced column j with pivot p emits
\* exactly one pair, with birth = p < death = j, whose dimension is
\* getDimension(p), and that is getDimension(j) - 1.
C11_PairsOfSimplicialFiltration ==
  (pc = "extracted" /\ Simplicial) =>
    /\ Len(pairs) = Cardinality({c \in 0..(Len(_data) - 1) : _data[c + 1] # <<>>})
    /\ \A i \in DOMAIN pairs :
         LET pair == pairs[i]
         IN /\ pair.death \in 0..(Len(_data) - 1)
            /\ _data[pair.death + 1] # <<>>
            /\ pair.birth = Largest(Elems(_data[pair.death + 1]))
            /\ pair.birth < pair.death
            /\ pair.dimension = getDimensionOf(self, pair.birth).value
            /\ pair.dimension = getDimensionOf(self, pair.death).value - 1

\* A filled triangle has been reduced: seven simplices, an elimination has
\* changed a column, and the triangle's column emitted a pair of dimension 1.
C11_Witness ==
  /\ pc = "extracted" /\ Simplicial
  /\ Len(_data) = 7
  /\ _data # original.data
  /\ \E i \in DOMAIN pairs :
       pairs[i].dimension = 1 /\ pairs[i].death = 6 /\ getDimensionOf(self, 6).value = 2

\* ------------------------------------------------------------------ C12
\* C12: reducing the same matrix M once with setDualized(false) and once with
\* setDualized(true) ends with identical reduced columns, and the two pair
\* lists correspond one to one: the pair (b, d) of the run with dualization
\* off is the pair (d, b) of the run with dualization on.
C12_DualizedRunSwapsPairs ==
  pc = "done" =>
    /\ _isDualized /\ ~original.isDualized
    /\ _data = first.data
    /\ Len(pairs) = Len(first.pairs)
    /\ \A i \in DOMAIN pairs :
         /\ pairs[i].birth = first.pairs[i].death
         /\ pairs[i].death = first.pairs[i].birth
         /\ first.pairs[i].birth < first.pairs[i].death

\* Both runs have completed on a matrix in which eliminations changed a
\* column and at least two pairs were emitted.
C12_Witness ==
  /\ pc = "done"
  /\ _data # original.data
  /\ Len(pairs) >= 2 /\ Len(first.pairs) >= 2
  /\ pairs[1].birth > pairs[1].death

\* ------------------------------------------------- PointCloud.hh: load
\* What a caller sees of a call to a free function.
Returned(op, value) == [op |-> op, thrown |-> FALSE, value |-> value]
Thrown(op) == [op |-> op, thrown |-> TRUE, value |-> <<>>]

\* A function outside the matrix is called once with the arguments drawn.
Apply(outcome) ==
  /\ pc = "call"
  /\ ret' = outcome
  /\ pc' = "returned"
  /\ UNCHANGED <<_data, _dimensions, _isDualized, j, pivotMap, first, extraction, args>>

\* The state around such a call: no matrix is involved.
Outside(arguments) ==
  /\ _data = Vector.data
  /\ _dimensions = Vector.dimensions
  /\ _isDualized = Vector.isDualized
  /\ ret = Returned("main", Void)
  /\ pc = "call"
  /\ j = 0
  /\ pivotMap = NoPivots
  /\ first = [data |-> <<>>, pivotMap |-> NoPivots]
  /\ original = Vector
  /\ pairs = <<>>
  /\ args = arguments

\* The characters of a file: digits, a separator, the end of a line.
Characters == {"1", "2", ",", "\n"}
Contents == UNION {[1..n -> Characters] : n \in 0..MaxChars}

\* PointCloud(): no points, no dimension, no buffer.
PointCloud == [n |-> 0, d |-> 0, points |-> <<>>]

\* PointCloud(n, d): n * d zero-initialized values.
PointCloudSized(n, d) == [n |-> n, d |-> d, points |-> [k \in 1..(n * d) |-> 0]]

\* PointCloud::set(i, begin, end). The copy is written std::copy(begin, end,
\* _points[d * i]), handing an element where the output iterator belongs;
\* it is modelled as the copy to offset d * i.
set(this, i, coordinates) ==
  IF i >= this.n THEN Throw("set", this)
  ELSE IF Len(coordinates) # this.d THEN Throw("set", this)
  ELSE Return("set", Void,
              [this EXCEPT !.points =
                 [k \in DOMAIN this.points |->
                    IF k > this.d * i /\ k <= this.d * i + this.d
                      THEN coordinates[k - this.d * i]
                      ELSE this.points[k]]])

\* std::ifstream in(filename): the characters, the read position, failbit.
Open(file) == [content |-> file.content, pos |-> 1, fail |-> ~file.readable]

\* A count that rewinds the stream before it is read again (what load does
\* not do).
CountNewlinesRewound(in) ==
  [count |-> Cardinality({k \in in.pos..Len(in.content) : in.content[k] = "\n"}),
   in |-> in]

\* std::count over istreambuf_iterators from the read position to the end of
\* the stream: the position is left at the end.
CountNewlines(in) ==
  [count |-> Cardinality({k \in in.pos..Len(in.content) : in.content[k] = "\n"}),
   in |-> [in EXCEPT !.pos = Len(in.content) + 1]]

\* std::getline: fails when nothing is left to read; otherwise the characters
\* up to the next line end, which is consumed.
GetLine(in) ==
  IF in.fail \/ in.pos > Len(in.content)
    THEN [ok |-> FALSE, line |-> <<>>, in |-> [in EXCEPT !.fail = TRUE]]
    ELSE LET ends == {k \in in.pos..Len(in.content) : in.content[k] = "\n"}
             stop == IF ends = {} THEN Len(in.content) + 1
                     ELSE CHOOSE k \in ends : \A e \in ends : k <= e
         IN [ok |-> TRUE,
             line |-> SubSeq(in.content, in.pos, stop - 1),
             in |-> [in EXCEPT !.pos = stop + 1]]

RECURSIVE split(_)
\* utilities::split(line, "[:;,[:space:]]+"): the pieces between runs of
\* separators; a separator in front leaves an empty first piece.
split(line) ==
  IF line = <<>> THEN <<>>
  ELSE LET seps == {k \in DOMAIN line : line[k] = ","}
           stop == IF seps = {} THEN Len(line) + 1
                   ELSE CHOOSE k \in seps : \A e \in seps : k <= e
           others == {k \in stop..Len(line) : line[k] # ","}
           next == IF others = {} THEN Len(line) + 1
                   ELSE CHOOSE k \in others : \A e \in others : k <= e
       IN <<SubSeq(line, 1, stop - 1)>> \o split(SubSeq(line, next, Len(line)))

RECURSIVE convert(_)
\* utilities::convert<T>(token): the number the digits spell.
convert(token) ==
  IF token = <<>> THEN 0
  ELSE 10 * convert(SubSeq(token, 1, Len(token) - 1))
       + (IF token[Len(token)] = "1" THEN 1 ELSE 2)

RECURSIVE LoadLines(_, _, _, _, _)
\* The while loop of load: one line per round.
LoadLines(in, i, d, n, pointCloud) ==
  LET got == GetLine(in)
  IN IF ~got.ok THEN Returned("load", pointCloud)
     ELSE LET tokens == split(got.line)
              dimension == IF d = 0 THEN Len(tokens) ELSE d
              cloud == IF d = 0 THEN PointCloudSized(n, dimension) ELSE pointCloud
              coordinates == [k \in DOMAIN tokens |-> convert(tokens[k])]
              stored == set(cloud, i, coordinates)
          IN IF stored.thrown THEN Thrown("load")
             ELSE LoadLines(got.in, i + 1, dimension, n, stored.this)

\* load<T>(filename)
load(file) ==
  LET in == Open(file)
  IN IF in.fail THEN Returned("load", PointCloud)
     ELSE LET lines == CountNewlines(in)
          IN IF lines.count <= 0 THEN Returned("load", PointCloud)
             ELSE LoadLines(lines.in, 0, 0, lines.count, PointCloud)

\* A file of at most MaxChars characters, readable or not.
InitLoad ==
  \E content \in Contents, readable \in BOOLEAN :
    Outside([content |-> content, readable |-> readable])

NextLoad == Apply(load(args))

SpecLoad == InitLoad /\ [][NextLoad]_vars

\* ------------------------------------------------------------------ C13
RECURSIVE RowsOf(_)
\* The rows of a file, each as the values it holds.
RowsOf(in) ==
  LET got == GetLine(in)
  IN IF ~got.ok THEN <<>>
     ELSE <<[k \in DOMAIN split(got.line) |-> convert(split(got.line)[k])]>>
          \o RowsOf(got.in)

\* n >= 1 rows, each ended by a line end, each holding the same number
\* d >= 1 of values with one separator between neighbours.
WellFormed(content) ==
  /\ content # <<>> /\ content[Len(content)] = "\n"
  /\ content[1] \in {"1", "2"}
  /\ \A k \in 1..(Len(content) - 1) :
       /\ content[k] = "," => content[k + 1] \in {"1", "2"}
       /\ content[k] = "\n" => content[k + 1] \in {"1", "2"}
       /\ content[k + 1] \in {",", "\n"} => content[k] \in {"1", "2"}
  /\ LET rows == RowsOf([content |-> content, pos |-> 1, fail |-> FALSE])
     IN \A k \in DOMAIN rows : Len(rows[k]) = Len(rows[1])

\* C13 (as stated): load on a readable file of n >= 1 rows of d >= 1 values
\* returns a point cloud of size n and dimension d whose i-th point holds the
\* values of row i; it returns the empty point cloud only when the file
\* cannot be opened or holds no line.
C13_LoadReturnsTheRows ==
  (pc = "returned" /\ ret.op = "load") =>
    LET rows == RowsOf([content |-> args.content, pos |-> 1, fail |-> FALSE])
        lines == Cardinality({k \in DOMAIN args.content : args.content[k] = "\n"})
    IN /\ (args.readable /\ WellFormed(args.content)) =>
            /\ ~ret.thrown
            /\ ret.value.n = Len(rows)
            /\ ret.value.d = Len(rows[1])
            /\ \A i \in DOMAIN rows : \A k \in DOMAIN rows[i] :
                 ret.value.points[(i - 1) * Len(rows[1]) + k] = rows[i][k]
       /\ (~ret.thrown /\ ret.value = PointCloud) => (~args.readable \/ lines = 0)

\* ------------------------------------------------------- Point.hh: Point
\* The points: _data, a vector of coordinates of any length.
Points == UNION {[1..n -> 0..MaxCoordinate] : n \in 0..MaxDimension}

RECURSIVE Equal(_, _, _)
\* std::equal(first1, last1, first2) from position k on: the results it can
\* return. It walks the first range only; where the second range has ended
\* it reads past its end, which is undefined: the value read may or may not
\* match.
Equal(a, b, k) ==
  IF k > Len(a) THEN {TRUE}
  ELSE IF k > Len(b) THEN {TRUE, FALSE}
  ELSE IF a[k] # b[k] THEN {FALSE}
  ELSE Equal(a, b, k + 1)

RECURSIVE LexicographicalCompare(_, _)
\* std::lexicographical_compare over both ranges.
LexicographicalCompare(a, b) ==
  IF b = <<>> THEN FALSE
  ELSE IF a = <<>> THEN TRUE
  ELSE IF Head(a) < Head(b) THEN TRUE
  ELSE IF Head(b) < Head(a) THEN FALSE
  ELSE LexicographicalCompare(Tail(a), Tail(b))

\* Point::operator==( other ): the values the call can return.
operatorEqual(this, other) == Equal(this, other, 1)

\* Point::operator!=( other )
operatorNotEqual(this, other) == {~equal : equal \in operatorEqual(this, other)}

\* Point::operator<( other )
operatorLess(this, other) == {LexicographicalCompare(this, other)}

\* Two points of any dimensions.
InitPoint == \E p \in Points, q \in Points : Outside([p |-> p, q |-> q])

NextPoint ==
  \/ \E value \in operatorEqual(args.p, args.q) : Apply(Returned("operator==", value))
  \/ \E value \in operatorNotEqual(args.p, args.q) : Apply(Returned("operator!=", value))
  \/ \E value \in operatorLess(args.p, args.q) : Apply(Returned("operator<", value))

SpecPoint == InitPoint /\ [][NextPoint]_vars

\* ------------------------------------------------------------------ C14
\* C14 (as stated): p == q returns true exactly when p and q have the same
\* number of coordinates and all corresponding coordinates are equal, so it
\* is symmetric and never true for points of different dimension; p != q
\* returns true exactly when that is not so.
C14_EqualityIsExact ==
  pc = "returned" =>
    /\ ret.op = "operator==" => (ret.value <=> args.p = args.q)
    /\ ret.op = "operator!=" => (ret.value <=> args.p # args.q)

\* ------------------------------------------------------------------ C15
\* No column holds a row index twice.
NoRepeats(this) ==
  \A c \in 0..(Len(this.data) - 1) : StrictlyAscending(this.data[c + 1])

\* Column `column` of `result` is empty or has a smaller pivot than it has
\* in `this`.
Lowered(this, result, column) ==
  LET before == getMaximumIndex(this, column).value
      after == getMaximumIndex(result, column).value
  IN ~after.second \/ after.first < before.first

\* C15 (as stated): on every matrix populated through setColumn from
\* arbitrary input (unsorted, repeated row indices) with rows below the
\* column index, each elimination of the shared pivot strictly lowers column
\* j's pivot or empties the column, so the inner loop ends after finitely
\* many addColumns calls.
C15_EliminationLowersPivot ==
  (Sweeping /\ getMaximumIndex(self, j).value.second) =>
    \A k \in SamePivot(self, j) : Lowered(self, addColumns(self, k, j).this, j)

\* C15 (amended): when no column holds a row index twice, each elimination
\* of the shared pivot strictly lowers column j's pivot or empties the
\* column, and again leaves no column holding an index twice; so the inner
\* loop ends after at most as many addColumns calls as the pivot is large.
C15_EliminationLowersPivotWithoutRepeats ==
  (Sweeping /\ getMaximumIndex(self, j).value.second /\ NoRepeats(self)) =>
    \A k \in SamePivot(self, j) :
      LET result == addColumns(self, k, j).this
      IN Lowered(self, result, j) /\ NoRepeats(result)

\* The sweep has just eliminated a shared pivot in a matrix populated
\* without repeats: column j is left non-empty with a smaller pivot, which
\* an earlier column shares again.
C15_Witness ==
  /\ pc = "reduce" /\ ret.op = "addColumns"
  /\ NoRepeats(original) /\ NoRepeats(self)
  /\ _data[j + 1] # <<>>
  /\ Largest(Elems(_data[j + 1])) < Largest(Elems(original.data[j + 1]))
  /\ SamePivot(self, j) # {}

\* ------------------------------------------------------------------ C16
RECURSIVE SumOfColumns(_, _)
\* The mod-2 sum of the columns that `rows` names.
SumOfColumns(this, rows) ==
  IF rows = <<>> THEN <<>>
  ELSE SetSymmetricDifference(this.data[Head(rows) + 1], SumOfColumns(this, Tail(rows)))

\* A boundary matrix proper: no column repeats an index, and the boundary of
\* every boundary vanishes (the columns named by any column sum to zero).
BoundaryOfBoundaryZero(this) ==
  /\ NoRepeats(this)
  /\ \A c \in 0..(Len(this.data) - 1) : SumOfColumns(this, this.data[c + 1]) = <<>>

\* The emitted pairs and the unpaired indices classify every index in
\* exactly one way.
ClassifiedOnce ==
  LET Births == {pairs[i].birth : i \in DOMAIN pairs}
      Deaths == {pairs[i].death : i \in DOMAIN pairs}
  IN /\ \A i \in DOMAIN pairs, k \in DOMAIN pairs :
          i # k => (pairs[i].birth # pairs[k].birth /\ pairs[i].death # pairs[k].death)
     /\ Births \cap Deaths = {}
     /\ Births \cap Unpaired(self) = {} /\ Deaths \cap Unpaired(self) = {}
     /\ Births \cup Deaths \cup Unpaired(self) = 0..(Len(_data) - 1)
     /\ \A i \in DOMAIN pairs : _data[pairs[i].birth + 1] = <<>>

\* C16 (as stated): after the sweep on any matrix whose row indices all lie
\* below their column index, every index is the birth of exactly one pair,
\* or the death of exactly one pair, or unpaired; no index occurs in two
\* pairs, and no pivot row has a non-empty column of its own.
C16_EveryIndexClassifiedOnce ==
  (pc = "extracted" /\ Triangular) => ClassifiedOnce

\* C16 (amended): the same, for a matrix that moreover repeats no index in a
\* column and in which the boundary of every boundary vanishes, as in the
\* boundary matrix of a simplicial filtration.
C16_BoundaryMatrixClassifiedOnce ==
  /\ Simplicial => BoundaryOfBoundaryZero(original)
  /\ (pc = "extracted" /\ Triangular /\ BoundaryOfBoundaryZero(original)) => ClassifiedOnce

\* A filled triangle has been reduced: three pairs, one essential class, and
\* the sweep had to change a column.
C16_Witness ==
  /\ pc = "extracted" /\ BoundaryOfBoundaryZero(original)
  /\ Len(_data) = 7 /\ getDimension(self).value = 2
  /\ _data # original.data
  /\ Len(pairs) = 3
  /\ Unpaired(self) = {0}

\* ------------------- stratified_graph_analysis.cc: makeRandomStratifiedGraph
\* The sizes of the strata handed in.
Strata == UNION {[1..n -> 0..MaxStratum] : n \in 0..MaxStrata}

\* VertexType is unsigned short.
VertexType(x) == x % 65536

RECURSIVE Offset(_, _)
\* The value of `offset` after i rounds of the outer loop: the vertices in
\* the first i strata.
Offset(strata, i) ==
  IF i = 0 THEN 0 ELSE VertexType(Offset(strata, i - 1) + strata[i])

\* Simplex( index ) for every unit of every stratum, index counting up.
CreateVertices(strata) ==
  [index \in 1..Offset(strata, Len(strata)) |->
     [vertices |-> <<VertexType(index - 1)>>, data |-> 0]]

\* The two inner loops of round i (strata[i] against strata[i+1], counted
\* from 0 in the code): the vertex pairs in the order they are pushed.
EdgesOfRound(strata, i) ==
  LET offset == Offset(strata, i)
  IN [m \in 1..(strata[i] * strata[i + 1]) |->
        LET jj == (m - 1) \div strata[i + 1]
            k == (m - 1) % strata[i + 1]
        IN <<VertexType(offset - strata[i] + jj), VertexType(offset + k)>>]

RECURSIVE CreateEdges(_, _)
\* The outer loop from round i on.
CreateEdges(strata, i) ==
  IF i > Len(strata) - 1 THEN <<>>
  ELSE EdgesOfRound(strata, i) \o CreateEdges(strata, i + 1)

\* makeRandomStratifiedGraph( strata, engine, distribution ); `weights` are
\* the values distribution( engine ) yields, one per edge.
makeRandomStratifiedGraph(strata, weights) ==
  IF Len(strata) <= 1 THEN Thrown("makeRandomStratifiedGraph")
  ELSE LET edges == CreateEdges(strata, 1)
       IN Returned("makeRandomStratifiedGraph",
                   CreateVertices(strata)
                   \o [m \in DOMAIN edges |-> [vertices |-> edges[m], data |-> weights[m]]])

InitGraph == \E strata \in Strata : Outside([strata |-> strata])

NextGraph ==
  \E weights \in [1..Len(CreateEdges(args.strata, 1)) -> 0..MaxWeight] :
    Apply(makeRandomStratifiedGraph(args.strata, weights))

SpecGraph == InitGraph /\ [][NextGraph]_vars

\* ------------------------------------------------------------------ C17
\* The stratum of vertex v: the first whose vertices reach beyond v.
StratumOf(strata, v) ==
  CHOOSE i \in DOMAIN strata :
    /\ v < Offset(strata, i)
    /\ \A k \in 1..(i - 1) : v >= Offset(strata, k)

\* C17 (as stated): makeRandomStratifiedGraph fails when fewer than two
\* strata are given; otherwise it builds one vertex per unit of every stratum
\* size, and an edge between two vertices exactly when they lie in different
\* strata.
C17_EveryStratumJoinedToEveryOther ==
  (pc = "returned" /\ ret.op = "makeRandomStratifiedGraph") =>
    /\ ret.thrown <=> Len(args.strata) < 2
    /\ ~ret.thrown =>
         LET total == Offset(args.strata, Len(args.strata))
             simplices == ret.value
             Edge(u, v) == \E m \in DOMAIN simplices :
                              simplices[m].vertices \in {<<u, v>>, <<v, u>>}
         IN /\ \A v \in 0..(total - 1) :
                 Cardinality({m \in DOMAIN simplices : simplices[m].vertices = <<v>>}) = 1
            /\ \A m \in DOMAIN simplices :
                 \A i \in DOMAIN simplices[m].vertices :
                   simplices[m].vertices[i] \in 0..(total - 1)
            /\ \A u \in 0..(total - 1), v \in 0..(total - 1) :
                 Edge(u, v) <=> StratumOf(args.strata, u) # StratumOf(args.strata, v)

\* --------------------------- stratified_graph_analysis.cc: applyFiltration
\* The simplices of a complex: vertices and a weight (data), of either sign.
WeightedSimplices == [vertices : Simplices, data : (0 - MaxWeight)..MaxWeight]

\* std::abs
Abs(w) == IF w < 0 THEN 0 - w ELSE w

\* Simplex::dimension(): one less than the number of vertices.
dimension(s) == Cardinality(s.vertices) - 1

\* The functor of the "absolute" strategy with reverse set; `less` is what
\* s < t yields.
absoluteReverse(s, t, less) ==
  LET w1 == s.data
      w2 == t.data
  IN IF Abs(w1) > Abs(w2) THEN TRUE
     ELSE IF Abs(w1) = Abs(w2)
       THEN IF w1 > w2 THEN TRUE
            ELSE IF dimension(s) < dimension(t) THEN TRUE
            ELSE less
     ELSE FALSE

\* The functor of the "absolute" strategy without reverse.
absolute(s, t, less) ==
  LET w1 == s.data
      w2 == t.data
  IN IF Abs(w1) < Abs(w2) THEN TRUE
     ELSE IF Abs(w1) = Abs(w2)
       THEN IF w1 < w2 THEN TRUE
            ELSE IF dimension(s) < dimension(t) THEN TRUE
            ELSE less
     ELSE FALSE

\* Two simplices, and what Simplex::operator< yields for them in either
\* order: any answers a strict ordering can give.
InitFiltration ==
  \E s \in WeightedSimplices, t \in WeightedSimplices, less \in BOOLEAN, greater \in BOOLEAN :
    /\ ~(less /\ greater)
    /\ s = t => (~less /\ ~greater)
    /\ Outside([s |-> s, t |-> t, less |-> less, greater |-> greater])

\* std::sort comparing s with t.
NextFiltration ==
  \/ Apply(Returned("absolute, reverse", absoluteReverse(args.s, args.t, args.less)))
  \/ Apply(Returned("absolute", absolute(args.s, args.t, args.less)))

SpecFiltration == InitFiltration /\ [][NextFiltration]_vars

\* ------------------------------------------------------------------ C18
\* C18 (as stated): both functors of the "absolute" strategy are strict
\* orderings: comp(s, s) is false, and comp(s, t) and comp(t, s) are never
\* both true, whatever the signs of the weights and the dimensions.
C18_FunctorsAreStrictOrderings ==
  (pc = "returned" /\ ret.value) =>
    /\ args.s # args.t
    /\ ret.op = "absolute, reverse" => ~absoluteReverse(args.t, args.s, args.greater)
    /\ ret.op = "absolute" => ~absolute(args.t, args.s, args.greater)
====
